---- MODULE Spec2Model ----
(***************************************************************************)
(* GenBlueprint.py: synthesis of Ansible playbooks and of an inventory     *)
(* entry from a JSON snapshot of a server.                                 *)
(*                                                                         *)
(* Text is a sequence of one-character strings, so that Python's str       *)
(* methods (strip, split, in, startswith, int) are computed character by   *)
(* character.  A playbook file is the sequence of the tasks its template   *)
(* renders; the inventory file is its raw text.                            *)
(***************************************************************************)
EXTENDS Integers, Sequences, FiniteSets, TLC

VARIABLES
    pc,         \* position of main(), or of the direct call under test
    json_file,  \* the file named on the command line: [status, content]
    data,       \* the dict returned by load_json
    exists,     \* paths that exist under the working directory
    files,      \* contents of the fixed-name output files
    index,      \* hostnames h for which playbooks/{h}.yml has been written
    ssh_port,   \* main()'s local ssh_port
    runs,       \* number of runs (or direct calls) started so far
    call,       \* arguments of the latest direct call
    exists0,    \* value of exists when the latest run or call started
    files0,     \* value of files when the latest run or call started
    index0      \* value of index when the latest run or call started

vars == <<pc, json_file, data, exists, files, index, ssh_port, runs, call,
          exists0, files0, index0>>

---------------------------------------------------------------------------
(* Bounds of the model *)

MaxCalls == 3
MaxRuns == 2
MaxCronLines == 3
MaxSshLines == 3

---------------------------------------------------------------------------
(* Python str operations *)

\* str.isspace() characters of the alphabet used here
WS == {" ", "\t", "\n"}

Digits == <<"0", "1", "2", "3", "4", "5", "6", "7", "8", "9">>

IsDigit(c) == \E d \in 1..10 : Digits[d] = c

DigitValue(c) == (CHOOSE d \in 1..10 : Digits[d] = c) - 1

RECURSIVE lstrip(_)
lstrip(s) ==
    IF s # <<>> /\ Head(s) \in WS THEN lstrip(Tail(s)) ELSE s

RECURSIVE rstrip(_)
rstrip(s) ==
    IF s # <<>> /\ s[Len(s)] \in WS THEN rstrip(SubSeq(s, 1, Len(s) - 1)) ELSE s

\* s.strip()
strip(s) == rstrip(lstrip(s))

\* s.startswith(p)
startswith(s, p) == Len(s) >= Len(p) /\ SubSeq(s, 1, Len(p)) = p

\* s.find(sub) + 1, and 0 when sub does not occur in s
find(s, sub) ==
    LET at == {i \in 1..(Len(s) - Len(sub) + 1) : SubSeq(s, i, i + Len(sub) - 1) = sub}
    IN  IF at = {} THEN 0 ELSE CHOOSE i \in at : \A j \in at : i <= j

\* sub in s
contains(s, sub) == find(s, sub) # 0

\* s.split(sep), sep a non-empty string
RECURSIVE split(_, _)
split(s, sep) ==
    LET i == find(s, sep)
    IN  IF i = 0 THEN <<s>>
        ELSE <<SubSeq(s, 1, i - 1)>> \o split(SubSeq(s, i + Len(sep), Len(s)), sep)

\* length of the run of non-whitespace characters that s starts with
RECURSIVE wordlen(_)
wordlen(s) ==
    IF s = <<>> \/ Head(s) \in WS THEN 0 ELSE 1 + wordlen(Tail(s))

\* s.split(None, maxsplit): runs of whitespace separate, at most maxsplit
\* splits are made, and the remainder keeps its trailing whitespace
RECURSIVE split_ws(_, _)
split_ws(s, maxsplit) ==
    LET t == lstrip(s)
        n == wordlen(t)
    IN  IF t = <<>> THEN <<>>
        ELSE IF maxsplit = 0 THEN <<t>>
        ELSE <<SubSeq(t, 1, n)>> \o split_ws(SubSeq(t, n + 1, Len(t)), maxsplit - 1)

\* s.split(): no limit on the number of splits
split_all(s) == split_ws(s, Len(s))

\* sep.join(parts)
RECURSIVE join(_, _)
join(sep, parts) ==
    IF parts = <<>> THEN <<>>
    ELSE IF Len(parts) = 1 THEN parts[1]
    ELSE parts[1] \o sep \o join(sep, Tail(parts))

\* int(s) raises ValueError unless s is an optional sign and decimal digits
int_ok(s) ==
    LET d == IF s # <<>> /\ Head(s) \in {"+", "-"} THEN Tail(s) ELSE s
    IN  d # <<>> /\ \A i \in 1..Len(d) : IsDigit(d[i])

RECURSIVE nat_of(_)
nat_of(d) ==
    IF d = <<>> THEN 0 ELSE 10 * nat_of(SubSeq(d, 1, Len(d) - 1)) + DigitValue(d[Len(d)])

\* int(s), for s with int_ok(s)
int(s) ==
    IF Head(s) = "-" THEN 0 - nat_of(Tail(s))
    ELSE IF Head(s) = "+" THEN nat_of(Tail(s))
    ELSE nat_of(s)

RECURSIVE str_nat(_)
str_nat(n) ==
    IF n < 10 THEN <<Digits[n + 1]>> ELSE str_nat(n \div 10) \o <<Digits[(n % 10) + 1]>>

\* str(n), as an f-string formats an int
str(n) == IF n < 0 THEN <<"-">> \o str_nat(0 - n) ELSE str_nat(n)

\* dict.get(key, default)
get(d, key, default) == IF key \in DOMAIN d THEN d[key] ELSE default

---------------------------------------------------------------------------
(* String literals of GenBlueprint.py *)

unknown == <<"u", "n", "k", "n", "o", "w", "n">>

PortWord == <<"P", "o", "r", "t">>

Hash == <<"#">>

NL == <<"\n">>

ansible_host == <<" ", "a", "n", "s", "i", "b", "l", "e", "_", "h", "o", "s", "t", "=">>

ansible_user_port == <<" ", "a", "n", "s", "i", "b", "l", "e", "_", "u", "s", "e", "r", "=", "r", "o", "o", "t", " ", "a", "n", "s", "i", "b", "l", "e", "_", "p", "o", "r", "t", "=">>

\* the ten spaces put before each line of the embedded sshd_config
Indent == <<" ", " ", " ", " ", " ", " ", " ", " ", " ", " ">>

EmptyDict == [k \in {} |-> {}]

---------------------------------------------------------------------------
(* Output files *)

PlaybooksDir == "playbooks"

PlaybookPaths ==
    [packages |-> "playbooks/packages.yml", services |-> "playbooks/services.yml",
     network |-> "playbooks/network.yml", ssh |-> "playbooks/ssh.yml",
     crontab |-> "playbooks/crontab.yml", inventory |-> "playbooks/inventory"]

NoFiles ==
    [packages |-> <<>>, services |-> <<>>, network |-> <<>>, ssh |-> <<>>,
     crontab |-> <<>>, inventory |-> <<>>]

\* open(path, "w") followed by write(content)
write_file(key, content) ==
    /\ files' = [files EXCEPT ![key] = content]
    /\ exists' = exists \cup {PlaybookPaths[key]}

---------------------------------------------------------------------------
(* The playbook generators *)

packages(d) ==
    LET pkgs == get(d, "installed_packages", <<>>)
    IN  [i \in 1..Len(pkgs) |-> pkgs[i].name]

generate_packages_playbook(d) ==
    write_file("packages",
        <<[name |-> "Install required packages", module |-> "apt",
           state |-> "present", update_cache |-> "yes", loop |-> packages(d)]>>)

services(d) ==
    LET svcs == get(d, "services", <<>>)
    IN  [i \in 1..Len(svcs) |-> svcs[i].name]

generate_services_playbook(d) ==
    write_file("services",
        <<[name |-> "Ensure services are running", module |-> "service",
           state |-> "started", loop |-> services(d)]>>)

ip_addr(d) == get(get(d, "network", EmptyDict), "ip_addr", "N/A")

generate_network_playbook(d) ==
    write_file("network",
        <<[name |-> "Display network configuration (for manual intervention)",
           module |-> "debug", msg |-> <<"Current network configuration: ", ip_addr(d)>>]>>)

generate_main_playbook(hostname) ==
    index' = index \cup {hostname}

\* mutant: the line is tested as it stands, not stripped
ssh_line_kept_unstripped(line) ==
    line # <<>> /\ ~startswith(line, Hash)

\* the condition of the generator expression at line 139
ssh_line_kept(line) ==
    strip(line) # <<>> /\ ~startswith(strip(line), Hash)

indented_ssh_config(d) ==
    LET ssh_config == get(d, "ssh_config", <<>>)
        kept == SelectSeq(split(ssh_config, NL), ssh_line_kept)
    IN  join(NL, [i \in 1..Len(kept) |-> Indent \o kept[i]])

generate_ssh_playbook(d) ==
    write_file("ssh",
        <<[name |-> "Configure SSH", module |-> "copy",
           content |-> indented_ssh_config(d), dest |-> "/etc/ssh/sshd_config",
           owner |-> "root", group |-> "root", mode |-> "0644"],
          [name |-> "Restart SSH service", module |-> "service",
           service |-> "sshd", state |-> "restarted"]>>)

\* crontab_lines of line 171
crontab_lines(d) ==
    LET crontab == get(d, "crontab", EmptyDict)
        root_crontab == get(crontab, "root", <<>>)
    IN  split(strip(root_crontab), NL)

\* parts of line 176
MaxSplit == 5

CronFields == 6

\* mutant: the line is split at every run of whitespace
cron_parts_split_all(line) == split_ws(line, Len(line))

cron_parts(line) == split_ws(line, MaxSplit)

\* the number i + 1 that names the task made from crontab_lines[i]
\* (i is enumerate's 0-based index; lines here is 1-based)
entry_number(lines, i) == i

\* mutant: each task is put in front of the list instead of appended
RECURSIVE cron_tasks_prepended(_, _)
cron_tasks_prepended(lines, i) ==
    IF i > Len(lines) THEN <<>>
    ELSE LET parts == split_ws(lines[i], MaxSplit)
             task == [name |-> <<"Configure root crontab entry", i>>,
                      module |-> "cron",
                      cron_name |-> <<"Root crontab entry", i>>,
                      user |-> "root",
                      minute |-> parts[1], hour |-> parts[2], day |-> parts[3],
                      month |-> parts[4], weekday |-> parts[5], job |-> parts[6]]
         IN  cron_tasks_prepended(lines, i + 1)
                 \o (IF Len(parts) = CronFields THEN <<task>> ELSE <<>>)

\* the list cron_tasks of lines 174-190, built from lines[i..]
RECURSIVE cron_tasks(_, _)
cron_tasks(lines, i) ==
    IF i > Len(lines) THEN <<>>
    ELSE LET parts == cron_parts(lines[i])
             task == [name |-> <<"Configure root crontab entry", entry_number(lines, i)>>,
                      module |-> "cron",
                      cron_name |-> <<"Root crontab entry", entry_number(lines, i)>>,
                      user |-> "root",
                      minute |-> parts[1], hour |-> parts[2], day |-> parts[3],
                      month |-> parts[4], weekday |-> parts[5], job |-> parts[6]]
         IN  (IF Len(parts) = CronFields THEN <<task>> ELSE <<>>)
                 \o cron_tasks(lines, i + 1)

generate_crontab_playbook(d) ==
    write_file("crontab", cron_tasks(crontab_lines(d), 1))

---------------------------------------------------------------------------
(* The inventory *)

inventory_entry(hostname, public_ip, port) ==
    hostname \o ansible_host \o public_ip \o ansible_user_port \o str(port)

\* mutant: the presence check is left out
hostname_never_in_inventory(hostname, inventory_content) == FALSE

\* mutant: the host field of a line is compared, not the whole text searched
hostname_is_host_field(hostname, inventory_content) ==
    LET ls == split(inventory_content, NL)
    IN  \E i \in 1..Len(ls) :
            split_all(ls[i]) # <<>> /\ split_all(ls[i])[1] = hostname

\* "hostname not in inventory_content" of line 124, negated
hostname_in_inventory(hostname, inventory_content) ==
    contains(inventory_content, hostname)

update_inventory(hostname, public_ip, port) ==
    IF PlaybookPaths.inventory \in exists
    THEN IF ~hostname_in_inventory(hostname, files.inventory)
         THEN /\ files' = [files EXCEPT !.inventory =
                               @ \o NL \o inventory_entry(hostname, public_ip, port)]
              /\ exists' = exists
         ELSE /\ files' = files
              /\ exists' = exists
    ELSE write_file("inventory", inventory_entry(hostname, public_ip, port))

---------------------------------------------------------------------------
(* The port of line 221 *)

DefaultPort == 22

\* data.get('ssh_config', '').split('Port')[1].split()
port_tokens(d) == split_all(split(get(d, "ssh_config", <<>>), PortWord)[2])

has_port_word(d) == contains(get(d, "ssh_config", <<>>), PortWord)

\* mutant: data['ssh_config'] in place of data.get('ssh_config', ''), which
\* raises KeyError when the snapshot has no ssh_config
ssh_port_raises_on_missing(d) ==
    \/ "ssh_config" \notin DOMAIN d
    \/ /\ contains(d.ssh_config, PortWord)
       /\ LET toks == split_all(split(d.ssh_config, PortWord)[2])
          IN  toks = <<>> \/ ~int_ok(toks[1])

\* [0] raises IndexError on an empty list, int() raises ValueError
ssh_port_raises(d) ==
    has_port_word(d) /\ (port_tokens(d) = <<>> \/ ~int_ok(port_tokens(d)[1]))

ssh_port_value(d) ==
    IF has_port_word(d) THEN int(port_tokens(d)[1]) ELSE DefaultPort

---------------------------------------------------------------------------
(* Inputs *)

web1 ==
    <<"w", "e", "b", "1">>

web10 ==
    <<"w", "e", "b", "1", "0">>

db ==
    <<"d", "b">>

\* the hostname "a", a substring of every entry
host_a ==
    <<"a">>

\* what run_command("hostname") returns when the command fails
no_hostname ==
    <<>>

ip1 ==
    <<"1", ".", "2", ".", "3", ".", "4">>

ip2 ==
    <<"5", ".", "6", ".", "7", ".", "8">>

Hostnames == {web1, web10, db, host_a, no_hostname}

PublicIps == {ip1, ip2}

SshPorts == {22, 2222}

\* every text of at most n lines drawn from lines
Texts(lines, n) ==
    {join(NL, ls) : ls \in UNION {[1..k -> lines] : k \in 0..n}}

\* six tokens
cron_backup ==
    <<"0", " ", "2", " ", "*", " ", "*", " ", "*", " ", "/", "b", ".", "s", "h">>

\* six tokens
cron_report ==
    <<"3", "0", " ", "3", " ", "*", " ", "*", " ", "1", " ", "/", "r", ".", "s", "h">>

\* one token
cron_badline ==
    <<"b", "a", "d", "l", "i", "n", "e">>

\* eight tokens: the command has arguments
cron_args ==
    <<"0", " ", "2", " ", "*", " ", "*", " ", "*", " ", "/", "b", ".", "s", "h", " ", "-", "v", " ", " ", "x">>

\* an empty line
cron_blank ==
    <<>>

\* five tokens after leading blanks
cron_five ==
    <<" ", " ", "5", " ", "4", " ", "*", " ", "*", " ", "*">>

\* six tokens, a tab in front, two blanks before the command, one after
cron_tabs ==
    <<"\t", "1", " ", "1", " ", "1", " ", "1", " ", "1", " ", " ", "/", "c", ".", "s", "h", " ">>

\* the header comment of crontab -l: seven tokens
cron_comment ==
    <<"#", " ", "m", " ", "h", " ", "d", "o", "m", " ", "m", "o", "n", " ", "d", "o", "w", " ", "c", "o", "m", "m", "a", "n", "d">>

\* a line of blanks
cron_spaces ==
    <<" ", " ">>

CronLines ==
    {cron_backup, cron_report, cron_badline, cron_args, cron_blank, cron_spaces,
     cron_five, cron_tabs, cron_comment}

CronTexts == Texts(CronLines, MaxCronLines)

ssh_port_2222 ==
    <<"P", "o", "r", "t", " ", "2", "2", "2", "2">>

ssh_port_22 ==
    <<"P", "o", "r", "t", " ", "2", "2">>

\* a commented-out directive
ssh_commented_port ==
    <<"#", "P", "o", "r", "t", " ", "2", "2", "2", "2">>

\* a directive whose name contains Port
ssh_gateway_ports ==
    <<"G", "a", "t", "e", "w", "a", "y", "P", "o", "r", "t", "s", " ", "n", "o">>

ssh_use_pam ==
    <<"U", "s", "e", "P", "A", "M", " ", "y", "e", "s">>

\* a line of blanks
ssh_blank ==
    <<" ", " ">>

\* an empty line
ssh_empty ==
    <<>>

\* a comment after leading whitespace
ssh_indented_comment ==
    <<"\t", " ", "#", " ", "c">>

\* a directive after leading blanks
ssh_indented_dir ==
    <<" ", " ", "X", " ", "y", "e", "s">>

SshLines ==
    {ssh_port_2222, ssh_commented_port, ssh_gateway_ports, ssh_use_pam, ssh_blank,
     ssh_empty, ssh_indented_comment, ssh_indented_dir}

SshTexts == Texts(SshLines, MaxSshLines)

\* the sshd_config texts of the snapshots given to main()
MainSshTexts ==
    {join(NL, ls) : ls \in
        {<<>>,
         <<ssh_use_pam>>,
         <<ssh_port_2222, ssh_use_pam>>,
         <<ssh_indented_comment, ssh_blank, ssh_port_22, ssh_gateway_ports>>,
         <<ssh_commented_port, ssh_port_22>>,
         <<ssh_commented_port, ssh_use_pam>>,
         <<ssh_gateway_ports, ssh_use_pam>>,
         <<ssh_use_pam, PortWord>>}}

MainHostnames == {web1, web10}

SnapshotKeys ==
    {"hostname", "public_ip", "ssh_config", "crontab", "installed_packages",
     "services", "network"}

\* a snapshot as GetStates.py's collect_server_info lays it out
FullSnapshot(hostname, ssh_config) ==
    [hostname |-> hostname,
     public_ip |-> ip1,
     ssh_config |-> ssh_config,
     crontab |-> [root |-> join(NL, <<cron_backup, cron_badline, cron_report>>)],
     installed_packages |-> <<[name |-> "nginx", version |-> "1.18"],
                              [name |-> "curl", version |-> "7.74"]>>,
     services |-> <<[name |-> "ssh.service", state |-> "running"]>>,
     network |-> [ip_addr |-> "10.0.0.5/24"]]

Restrict(f, keys) == [k \in keys |-> f[k]]

\* the sets of keys a snapshot may lack: none, any one, or all
MissingKeys == {{}} \cup {{k} : k \in SnapshotKeys} \cup {SnapshotKeys}

\* the snapshots that lack keys are drawn from two complete ones: one whose
\* ssh_config has a Port directive, one whose ssh_config has none
Snapshots ==
    {FullSnapshot(h, t) : h \in MainHostnames, t \in MainSshTexts}
        \cup {Restrict(FullSnapshot(web1, join(NL, <<ssh_port_2222, ssh_use_pam>>)),
                       SnapshotKeys \ m) : m \in MissingKeys}
        \cup {Restrict(FullSnapshot(web10, join(NL, <<ssh_gateway_ports, ssh_use_pam>>)),
                       SnapshotKeys \ m) : m \in MissingKeys}

JsonFiles ==
    {[status |-> "valid", content |-> c] : c \in Snapshots}
        \cup {[status |-> st, content |-> EmptyDict] : st \in {"unreadable", "malformed"}}

NoCall == [hostname |-> <<>>, public_ip |-> <<>>, ssh_port |-> 0]

NoJsonFile == [status |-> "none", content |-> EmptyDict]

---------------------------------------------------------------------------
(* main(): one action per statement of lines 207-222 *)

Init ==
    /\ pc = "load_json"
    /\ json_file \in JsonFiles
    /\ data = EmptyDict
    /\ exists = {}
    /\ files = NoFiles
    /\ index = {}
    /\ ssh_port = 0
    /\ runs = 1
    /\ call = NoCall
    /\ exists0 = {}
    /\ files0 = NoFiles
    /\ index0 = {}

\* mutant: the error is swallowed and the run goes on with an empty dict
load_json_never_raises(f) == FALSE

\* open() raises on an unreadable file, json.load on malformed JSON
load_json_raises(f) == f.status # "valid"

LoadJson ==
    /\ pc = "load_json"
    /\ IF load_json_raises(json_file)
       THEN pc' = "failed" /\ data' = data
       ELSE pc' = "create_playbook_directory" /\ data' = json_file.content
    /\ UNCHANGED <<json_file, exists, files, index, ssh_port, runs, call,
                   exists0, files0, index0>>

CreatePlaybookDirectory ==
    /\ pc = "create_playbook_directory"
    /\ exists' = exists \cup {PlaybooksDir}
    /\ pc' = "generate_packages_playbook"
    /\ UNCHANGED <<json_file, data, files, index, ssh_port, runs, call,
                   exists0, files0, index0>>

GeneratePackagesPlaybook ==
    /\ pc = "generate_packages_playbook"
    /\ generate_packages_playbook(data)
    /\ pc' = "generate_services_playbook"
    /\ UNCHANGED <<json_file, data, index, ssh_port, runs, call, exists0, files0, index0>>

GenerateServicesPlaybook ==
    /\ pc = "generate_services_playbook"
    /\ generate_services_playbook(data)
    /\ pc' = "generate_network_playbook"
    /\ UNCHANGED <<json_file, data, index, ssh_port, runs, call, exists0, files0, index0>>

GenerateNetworkPlaybook ==
    /\ pc = "generate_network_playbook"
    /\ generate_network_playbook(data)
    /\ pc' = "generate_ssh_playbook"
    /\ UNCHANGED <<json_file, data, index, ssh_port, runs, call, exists0, files0, index0>>

GenerateSshPlaybook ==
    /\ pc = "generate_ssh_playbook"
    /\ generate_ssh_playbook(data)
    /\ pc' = "generate_crontab_playbook"
    /\ UNCHANGED <<json_file, data, index, ssh_port, runs, call, exists0, files0, index0>>

GenerateCrontabPlaybook ==
    /\ pc = "generate_crontab_playbook"
    /\ generate_crontab_playbook(data)
    /\ pc' = "generate_main_playbook"
    /\ UNCHANGED <<json_file, data, index, ssh_port, runs, call, exists0, files0, index0>>

GenerateMainPlaybook ==
    /\ pc = "generate_main_playbook"
    /\ generate_main_playbook(get(data, "hostname", unknown))
    /\ pc' = "ssh_port"
    /\ UNCHANGED <<json_file, data, exists, files, ssh_port, runs, call,
                   exists0, files0, index0>>

\* line 221: the exception of int() or of [0] ends the run
ExtractSshPort ==
    /\ pc = "ssh_port"
    /\ IF ssh_port_raises(data)
       THEN pc' = "failed" /\ ssh_port' = ssh_port
       ELSE pc' = "update_inventory" /\ ssh_port' = ssh_port_value(data)
    /\ UNCHANGED <<json_file, data, exists, files, index, runs, call,
                   exists0, files0, index0>>

UpdateInventory ==
    /\ pc = "update_inventory"
    /\ update_inventory(get(data, "hostname", unknown),
                        get(data, "public_ip", unknown), ssh_port)
    /\ pc' = "done"
    /\ UNCHANGED <<json_file, data, index, ssh_port, runs, call, exists0, files0, index0>>

\* the script is run again, on another snapshot, in the same working directory
RunAgain ==
    /\ pc \in {"done", "failed"}
    /\ runs < MaxRuns
    /\ runs' = runs + 1
    /\ json_file' \in JsonFiles
    /\ pc' = "load_json"
    /\ data' = EmptyDict
    /\ ssh_port' = 0
    /\ exists0' = exists
    /\ files0' = files
    /\ index0' = index
    /\ UNCHANGED <<exists, files, index, call>>

Next ==
    \/ LoadJson
    \/ CreatePlaybookDirectory
    \/ GeneratePackagesPlaybook
    \/ GenerateServicesPlaybook
    \/ GenerateNetworkPlaybook
    \/ GenerateSshPlaybook
    \/ GenerateCrontabPlaybook
    \/ GenerateMainPlaybook
    \/ ExtractSshPort
    \/ UpdateInventory
    \/ RunAgain

Spec == Init /\ [][Next]_vars

---------------------------------------------------------------------------
(* update_inventory called directly, any number of times, on a directory   *)
(* that holds no inventory file                                            *)

InitInv ==
    /\ pc = "call"
    /\ json_file = NoJsonFile
    /\ data = EmptyDict
    /\ exists = {PlaybooksDir}
    /\ files = NoFiles
    /\ index = {}
    /\ ssh_port = 0
    /\ runs = 0
    /\ call = NoCall
    /\ exists0 = {PlaybooksDir}
    /\ files0 = NoFiles
    /\ index0 = {}

CallUpdateInventory(hostname, public_ip, port) ==
    /\ runs < MaxCalls
    /\ runs' = runs + 1
    /\ call' = [hostname |-> hostname, public_ip |-> public_ip, ssh_port |-> port]
    /\ exists0' = exists
    /\ files0' = files
    /\ update_inventory(hostname, public_ip, port)
    /\ UNCHANGED <<pc, json_file, data, index, ssh_port, index0>>

NextInv ==
    \E hostname \in Hostnames, public_ip \in PublicIps, port \in SshPorts :
        CallUpdateInventory(hostname, public_ip, port)

SpecInv == InitInv /\ [][NextInv]_vars

---------------------------------------------------------------------------
(* generate_crontab_playbook and generate_ssh_playbook called directly on  *)
(* a snapshot holding one text                                             *)

InitCall(snapshots) ==
    /\ pc = "call"
    /\ json_file = NoJsonFile
    /\ data \in snapshots
    /\ exists = {PlaybooksDir}
    /\ files = NoFiles
    /\ index = {}
    /\ ssh_port = 0
    /\ runs = 0
    /\ call = NoCall
    /\ exists0 = {PlaybooksDir}
    /\ files0 = NoFiles
    /\ index0 = {}

InitCron == InitCall({[crontab |-> [root |-> t]] : t \in CronTexts})

CallGenerateCrontabPlaybook ==
    /\ pc = "call"
    /\ generate_crontab_playbook(data)
    /\ pc' = "returned"
    /\ UNCHANGED <<json_file, data, index, ssh_port, runs, call, exists0, files0, index0>>

SpecCron == InitCron /\ [][CallGenerateCrontabPlaybook]_vars

InitSsh == InitCall({[ssh_config |-> t] : t \in SshTexts})

CallGenerateSshPlaybook ==
    /\ pc = "call"
    /\ generate_ssh_playbook(data)
    /\ pc' = "returned"
    /\ UNCHANGED <<json_file, data, index, ssh_port, runs, call, exists0, files0, index0>>

SpecSsh == InitSsh /\ [][CallGenerateSshPlaybook]_vars

---------------------------------------------------------------------------
(* Vocabulary of the properties: tokens of a line, found by position *)

TokenStarts(line) ==
    {i \in 1..Len(line) : line[i] \notin WS /\ (i = 1 \/ line[i - 1] \in WS)}

TokenEnds(line) ==
    {i \in 1..Len(line) : line[i] \notin WS /\ (i = Len(line) \/ line[i + 1] \in WS)}

TokenCount(line) == Cardinality(TokenStarts(line))

\* the k-th smallest member of a set of numbers
Kth(S, k) == CHOOSE x \in S : Cardinality({y \in S : y < x}) = k - 1

Token(line, k) == SubSeq(line, Kth(TokenStarts(line), k), Kth(TokenEnds(line), k))

HostField(line) == IF TokenCount(line) = 0 THEN <<>> ELSE Token(line, 1)

IsSubstring(sub, s) ==
    \E i \in 1..(Len(s) + 1) : \E j \in (i - 1)..Len(s) : SubSeq(s, i, j) = sub

PortText(p) == IF p = 22 THEN <<"2", "2">> ELSE <<"2", "2", "2", "2">>

\* the entry line of a direct call c of update_inventory
EntryText(c) ==
    c.hostname \o ansible_host \o c.public_ip \o ansible_user_port \o PortText(c.ssh_port)

InventoryLines == split(files.inventory, NL)

---------------------------------------------------------------------------
(* Properties of the inventory (SpecInv) *)

\* C1: after any sequence of update_inventory calls that starts with no
\* inventory file, no two lines of the inventory file have the same host
\* field (first whitespace-delimited token), so no hostname has two lines.
C1_OneLinePerHostname ==
    \A i \in 1..Len(InventoryLines) : \A j \in 1..Len(InventoryLines) :
        i < j => HostField(InventoryLines[i]) # HostField(InventoryLines[j])

\* a call repeated a hostname that already had its line, in a file of two lines
C1_Witness ==
    /\ runs >= 2
    /\ Len(InventoryLines) >= 2
    /\ \E i \in 1..Len(InventoryLines) : HostField(InventoryLines[i]) = call.hostname
    /\ files.inventory = files0.inventory

\* C2: a call creates the file with exactly the entry line when the file
\* does not exist; appends a newline and the entry to the contents C when the
\* hostname is not a substring of C; leaves the file as it is when the
\* hostname is a substring of C, whatever the IP and the port.
C2_UpdateInventoryEffect ==
    runs > 0 =>
        /\ PlaybookPaths.inventory \in exists
        /\ files.inventory =
              IF PlaybookPaths.inventory \notin exists0 THEN EntryText(call)
              ELSE IF ~IsSubstring(call.hostname, files0.inventory)
                   THEN files0.inventory \o NL \o EntryText(call)
                   ELSE files0.inventory

\* web1, then web10, then web1 with another IP and port: the third call
\* leaves the two lines of web1 and web10
C2_Witness ==
    /\ runs = 3
    /\ call = [hostname |-> web1, public_ip |-> ip2, ssh_port |-> 2222]
    /\ files.inventory = files0.inventory
    /\ files.inventory =
          EntryText([hostname |-> web1, public_ip |-> ip1, ssh_port |-> 22])
              \o NL \o EntryText([hostname |-> web10, public_ip |-> ip2, ssh_port |-> 22])

---------------------------------------------------------------------------
(* Properties of generate_crontab_playbook (SpecCron) *)

\* the lines of the root crontab as the snapshot holds it
RawCronLines == split(data.crontab.root, NL)

\* the lines that have the five schedule fields and a command
AcceptedCronLines == {i \in 1..Len(RawCronLines) : TokenCount(RawCronLines[i]) >= 6}

\* the number of lines without a token that come before the first token
LeadingBlankLines ==
    Cardinality({i \in 1..Len(RawCronLines) :
                    \A j \in 1..i : TokenCount(RawCronLines[j]) = 0})

CronTasks == files.crontab

\* the text of line from its sixth token to the end of its last token
CommandOf(line) ==
    SubSeq(line, Kth(TokenStarts(line), 6), Kth(TokenEnds(line), TokenCount(line)))

\* C3: the crontab playbook holds one task per well-formed line (five
\* schedule fields and a command), in the order of the lines, with that
\* line's minute, hour, day, month, weekday and command; the other lines
\* give no task, and an empty crontab gives none.
C3_OneTaskPerWellFormedLine ==
    pc = "returned" =>
        /\ PlaybookPaths.crontab \in exists
        /\ Len(CronTasks) = Cardinality(AcceptedCronLines)
        /\ \A k \in 1..Len(CronTasks) :
              LET line == RawCronLines[Kth(AcceptedCronLines, k)]
                  t == CronTasks[k]
              IN  /\ t.minute = Token(line, 1)
                  /\ t.hour = Token(line, 2)
                  /\ t.day = Token(line, 3)
                  /\ t.month = Token(line, 4)
                  /\ t.weekday = Token(line, 5)
                  /\ rstrip(t.job) = CommandOf(line)
                  /\ IsSubstring(t.job, line)

\* two different well-formed lines with a malformed line between them
C3_Witness ==
    /\ pc = "returned"
    /\ Len(CronTasks) = 2
    /\ CronTasks[1].job # CronTasks[2].job
    /\ \E i \in 1..Len(RawCronLines) :
          /\ TokenCount(RawCronLines[i]) \in 1..5
          /\ \E a \in AcceptedCronLines : a < i
          /\ \E b \in AcceptedCronLines : i < b

\* C4: the tasks are numbered 1, 2, ..., N in order, whatever lines were
\* dropped between them.
C4_NumberedAmongEntries ==
    pc = "returned" =>
        \A k \in 1..Len(CronTasks) :
            /\ CronTasks[k].cron_name = <<"Root crontab entry", k>>
            /\ CronTasks[k].name = <<"Configure root crontab entry", k>>

\* What the code does instead: a task is numbered by the 1-based position
\* of its line among the lines of the crontab text stripped of leading and
\* trailing whitespace, dropped lines included.
NumberedAmongLines ==
    pc = "returned" =>
        \A k \in 1..Len(CronTasks) :
            LET n == Kth(AcceptedCronLines, k) - LeadingBlankLines
            IN  /\ CronTasks[k].cron_name = <<"Root crontab entry", n>>
                /\ CronTasks[k].name = <<"Configure root crontab entry", n>>

\* C9 as claimed: only the lines of exactly 6 tokens give an entry.
C9_ExactlySixTokens ==
    pc = "returned" =>
        Len(CronTasks) =
            Cardinality({i \in 1..Len(RawCronLines) : TokenCount(RawCronLines[i]) = 6})

\* C9 amended: a line gives an entry exactly when it has at least 6 tokens;
\* a line with fewer gives none, and the tokens after the sixth stay in the
\* command of the entry.
C9_AtLeastSixTokens ==
    pc = "returned" =>
        /\ Len(CronTasks) =
              Cardinality({i \in 1..Len(RawCronLines) : TokenCount(RawCronLines[i]) > 5})
        /\ \A k \in 1..Len(CronTasks) :
              TokenCount(CronTasks[k].job) =
                  TokenCount(RawCronLines[Kth(AcceptedCronLines, k)]) - 5

\* a line of more than 6 tokens gave an entry, a line of fewer gave none
C9_Witness ==
    /\ pc = "returned"
    /\ Len(CronTasks) = 1
    /\ TokenCount(CronTasks[1].job) > 1
    /\ \E i \in 1..Len(RawCronLines) : TokenCount(RawCronLines[i]) \in 1..5

---------------------------------------------------------------------------
(* Properties of generate_ssh_playbook (SpecSsh) *)

RawSshLines == split(data.ssh_config, NL)

\* the lines whose first non-whitespace character exists and is not '#'
KeptSshLines ==
    {i \in 1..Len(RawSshLines) :
        \E j \in 1..Len(RawSshLines[i]) :
            /\ RawSshLines[i][j] \notin WS
            /\ RawSshLines[i][j] # "#"
            /\ \A h \in 1..(j - 1) : RawSshLines[i][h] \in WS}

EmbeddedConfig == files.ssh[1].content

\* C8: the config embedded in ssh.yml is made of exactly the input lines
\* that are not blank and do not start with '#' once trimmed, in their
\* order, each after the same ten spaces and otherwise as it was.
C8_EmbeddedConfigLines ==
    pc = "returned" =>
        IF KeptSshLines = {} THEN EmbeddedConfig = <<>>
        ELSE split(EmbeddedConfig, NL) =
                [k \in 1..Cardinality(KeptSshLines) |->
                    Indent \o RawSshLines[Kth(KeptSshLines, k)]]

\* an indented comment and a blank line dropped between two kept lines
C8_Witness ==
    /\ pc = "returned"
    /\ Cardinality(KeptSshLines) = 2
    /\ \E i \in 1..Len(RawSshLines) :
          /\ i \notin KeptSshLines
          /\ RawSshLines[i] # <<>>
          /\ Kth(KeptSshLines, 1) < i
          /\ i < Kth(KeptSshLines, 2)

---------------------------------------------------------------------------
(* Properties of main() (Spec) *)

Snapshot == json_file.content

ValidSnapshot == json_file.status = "valid"

SnapshotSshConfig == get(Snapshot, "ssh_config", <<>>)

\* positions where the token Port is followed by whitespace and a number
PortDirectives(text) ==
    {i \in 1..(Len(text) - 4) :
        /\ SubSeq(text, i, i + 3) = PortWord
        /\ text[i + 4] \in WS
        /\ LET rest == SubSeq(text, i + 4, Len(text))
           IN  TokenCount(rest) > 0 /\ int_ok(Token(rest, 1))}

\* the first numeric token after the first occurrence of Port
FirstNumberAfterPort(text) ==
    LET rest == SubSeq(text, find(text, PortWord) + 4, Len(text))
        nums == {k \in 1..TokenCount(rest) : int_ok(Token(rest, k))}
    IN  int(Token(rest, Kth(nums, 1)))

ClaimedPort(text) ==
    IF PortDirectives(text) = {} THEN 22 ELSE FirstNumberAfterPort(text)

\* C5 as claimed: whatever the ssh_config text holds, the run goes on to
\* the inventory update, with port 22 when the text has no Port directive
\* and with the first number after the first Port otherwise.
C5_PortExtraction ==
    ValidSnapshot =>
        /\ pc # "failed"
        /\ pc \in {"update_inventory", "done"} => ssh_port = ClaimedPort(SnapshotSshConfig)

\* C6: when the snapshot file is unreadable or is not valid JSON, the run
\* stops at load_json, and the directory, the playbooks, the index files and
\* the inventory are as they were when the run started.
C6_NoOutputOnBadSnapshot ==
    ~ValidSnapshot =>
        /\ pc \in {"load_json", "failed"}
        /\ exists = exists0
        /\ files = files0
        /\ index = index0

\* a second run failed on malformed JSON over the output of a first run
C6_Witness ==
    /\ pc = "failed"
    /\ json_file.status = "malformed"
    /\ runs = 2
    /\ PlaybookPaths.inventory \in exists

MissingKey(k) == ValidSnapshot /\ k \notin DOMAIN Snapshot

AllOutputsExist ==
    /\ PlaybooksDir \in exists
    /\ \A k \in DOMAIN PlaybookPaths : PlaybookPaths[k] \in exists
    /\ get(Snapshot, "hostname", unknown) \in index

EmbeddedPort ==
    LET ls == split(files.ssh[1].content, NL)
        ports == {i \in 1..Len(ls) :
                     /\ TokenCount(ls[i]) >= 2
                     /\ Token(ls[i], 1) = PortWord
                     /\ int_ok(Token(ls[i], 2))}
    IN  IF ports = {} THEN 22 ELSE int(Token(ls[Kth(ports, 1)], 2))

\* C10 as claimed: the ansible_port of the line a run adds to the inventory
\* is the port of the first Port directive of the config the run embeds in
\* ssh.yml, and 22 when that config has none.
C10_PortAgreesWithEmbeddedConfig ==
    (pc = "done" /\ files.inventory # files0.inventory) =>
        files.inventory =
            (IF PlaybookPaths.inventory \in exists0 THEN files0.inventory \o NL ELSE <<>>)
                \o get(Snapshot, "hostname", unknown) \o ansible_host
                \o get(Snapshot, "public_ip", unknown) \o ansible_user_port
                \o str(EmbeddedPort)

====
